---- MODULE Spec2Model ----
(***************************************************************************)
(* Model of main.py: the sequential scraping loop (run_sequentially), the  *)
(* per-URL retry loop (extract_contact_iframe) and the global browser      *)
(* session (create_session).                                               *)
(*                                                                         *)
(* The environment (HTTP server, headless browser, HTMLSession             *)
(* constructor, session.close) is nondeterministic: every attempt draws    *)
(* one response from Envs.                                                 *)
(***************************************************************************)
EXTENDS Integers, Sequences, FiniteSets

\* ------------------------------------------------------------------ bounds
\* Longest sitemap (number of URLs handed to run_sequentially).
MaxUrls == 2

\* Most elements in a generated page.
MaxNodes == 3

\* ------------------------------------------------------- program constants
\* retries=3, the default of extract_contact_iframe; run_sequentially uses it.
Retries == 3
\* time.sleep(3) after a RequestException.
TransportSleep == 3
\* time.sleep(2) after a session recreation.
SessionSleep == 2

\* session = None
None == 0

\* The qualifying substring tested by `"contact.sigma-rh.com" in src`.
Needle == "contact.sigma-rh.com"

\* Page URLs a sitemap may list (a sitemap may list one URL twice).
Urls == {"A", "B"}

\* All sitemaps up to MaxUrls entries, as ordered sequences.
UrlSeqs == UNION {[1..n -> Urls] : n \in 0..MaxUrls}

\* ---------------------------------------------------------- rendered pages
\* A src attribute value is a sequence of string fragments; Python's
\* `needle in src` is containment of the needle fragment.
SrcX == <<"https://", "contact.sigma-rh.com", "/x">>
SrcForm == <<"https://", "contact.sigma-rh.com", "/form?id=9">>
SrcOther == <<"https://", "example.com", "/y">>
\* A query string with two parameters.  Attribute values and texts are held
\* as parsed (entities decoded); a character that the serialiser escapes is a
\* fragment of its own.
SrcAmp == <<"https://", "contact.sigma-rh.com", "/form?id=9", "&", "lang=fr">>

\* An attribute other than src; value <<>> is an attribute without a value.
Attr(name, value) == [name |-> name, value |-> value]

\* An element of a parsed document, in document order; parent = 0 is the root.
\*   hasSrc, src  the src attribute: iframe.get("src")
\*   pre, post    the other attributes, those before and those after src
\*   text         the text between the start tag and the first child
\*   tail         the text between the end tag and the next element
El(tag, hasSrc, src, parent) ==
    [tag |-> tag, hasSrc |-> hasSrc, src |-> src, parent |-> parent,
     pre |-> <<>>, post |-> <<>>, text |-> <<>>, tail |-> <<>>]

\* Element el with other attributes and text around it.
Marked(el, pre, post, text, tail) ==
    [el EXCEPT !.pre = pre, !.post = post, !.text = text, !.tail = tail]

\* The tree etree.HTML returns: its elements, and whether the page declares
\* an XHTML doctype.
Doc(xhtml, els) == [xhtml |-> xhtml, els |-> els]

\* No document: the exception came before the page was parsed.
NoDoc == Doc(FALSE, <<>>)

\* The documents a successful render may produce.
Docs == <<
    \* one qualifying iframe
    Doc(FALSE, << El("iframe", TRUE, SrcX, 0) >>),
    \* a qualifying iframe only inside <noscript>
    Doc(FALSE, << El("noscript", FALSE, <<>>, 0), El("iframe", TRUE, SrcX, 1) >>),
    \* iframes without src or with a foreign src
    Doc(FALSE, << El("iframe", FALSE, <<>>, 0), El("iframe", TRUE, SrcOther, 0) >>),
    \* two qualifying iframes around a noscript subtree holding a third
    Doc(FALSE, << El("iframe", TRUE, SrcX, 0), El("noscript", FALSE, <<>>, 0),
                  El("div", FALSE, <<>>, 2), El("iframe", TRUE, SrcX, 3),
                  El("iframe", TRUE, SrcForm, 0) >>)
>>

DocIds == 1..Len(Docs)

\* The kinds of element a generated page is made of: containers, noscript,
\* and iframes without src, with a qualifying src, with a foreign src.
Kinds ==
    { [tag |-> "div", hasSrc |-> FALSE, src |-> <<>>],
      [tag |-> "noscript", hasSrc |-> FALSE, src |-> <<>>],
      [tag |-> "iframe", hasSrc |-> FALSE, src |-> <<>>],
      [tag |-> "iframe", hasSrc |-> TRUE, src |-> SrcX],
      [tag |-> "iframe", hasSrc |-> TRUE, src |-> SrcForm],
      [tag |-> "iframe", hasSrc |-> TRUE, src |-> SrcOther] }

\* Element k and its ancestors under the parent function par.
RECURSIVE AncSelf(_, _)
AncSelf(par, k) == IF k = 0 THEN {} ELSE {k} \cup AncSelf(par, par[k])

\* Parent functions of the trees with n elements numbered in document order:
\* an element hangs under the root, under its predecessor or under one of
\* its predecessor's ancestors.
TreeShapes(n) ==
    {par \in [1..n -> 0..(n - 1)] :
        \A k \in 1..n :
            par[k] = 0 \/ (k > 1 /\ par[k] \in AncSelf(par, k - 1))}

\* Every document of at most MaxNodes elements that carry src alone.
TreePages ==
    UNION {{Doc(FALSE, [k \in 1..n |->
                           El(kind[k].tag, kind[k].hasSrc, kind[k].src, par[k])]) :
                kind \in [1..n -> Kinds], par \in TreeShapes(n)} :
           n \in 0..MaxNodes}

\* Texts inside and after an element: none, the indentation of a formatted
\* page, a text with characters that have to be escaped.
Texts == {<<>>, <<"\n  ">>, <<"a", "<", "b", "&", "c">>}

\* Attributes written before src and after it.
PreAttrs ==
    {<<>>, <<Attr("name", <<"f">>)>>,
     <<Attr("lang", <<"fr">>), Attr("id", <<"c">>)>>}
PostAttrs ==
    {<<>>, <<Attr("noresize", <<>>)>>,
     <<Attr("title", <<"a", "\"", ">", "b">>)>>}

\* What the iframe holds: nothing, a void element, a noscript.
Inner ==
    {<<>>, <<El("br", FALSE, <<>>, 2)>>, <<El("noscript", FALSE, <<>>, 2)>>}

\* One qualifying iframe in a container, with and without an XHTML doctype,
\* with other attributes, text inside, text after it and a child.
MarkupPages ==
    {Doc(x, <<El("div", FALSE, <<>>, 0),
              Marked(El("iframe", TRUE, s, 1), pre, post, text, tail)>> \o kid) :
        x \in BOOLEAN, s \in {SrcX, SrcAmp}, pre \in PreAttrs, post \in PostAttrs,
        text \in Texts, tail \in Texts, kid \in Inner}

\* The pages a render is drawn from.
Pages == TreePages \cup MarkupPages

\* UnderNoscript that looks at the element and its parent only.
UnderNoscriptDirect(doc, k) ==
    /\ k # 0
    /\ \/ doc.els[k].tag = "noscript"
       \/ doc.els[k].parent # 0 /\ doc.els[doc.els[k].parent].tag = "noscript"

\* Element k is a <noscript> or lies in the subtree of one: it disappears when
\* every <noscript> is removed from its parent.
RECURSIVE UnderNoscript(_, _)
UnderNoscript(doc, k) ==
    IF k = 0 THEN FALSE
    ELSE IF doc.els[k].tag = "noscript" THEN TRUE
    ELSE UnderNoscript(doc, doc.els[k].parent)

\* tree.xpath("//iframe[@src]") after the noscript removal: positions of the
\* remaining iframes that carry a src, in document order.
IframesWithSrc(doc) ==
    SelectSeq([k \in 1..Len(doc.els) |-> k],
              LAMBDA k : /\ ~UnderNoscript(doc, k)
                         /\ doc.els[k].tag = "iframe"
                         /\ doc.els[k].hasSrc)

\* Qualifies that accepts every non-empty src.
QualifiesAnySrc(src) == src # <<>>

\* "contact.sigma-rh.com" in src
Qualifies(src) == \E j \in 1..Len(src) : src[j] = Needle

\* The children element k has left after the noscript removal, in document
\* order (a removed noscript takes its tail text with it).
Children(doc, k) ==
    SelectSeq([j \in 1..Len(doc.els) |-> j],
              LAMBDA j : doc.els[j].parent = k /\ doc.els[j].tag # "noscript")

\* The serialiser's escaping of an attribute value.
EscapeAttr(v) ==
    [n \in 1..Len(v) |->
        CASE v[n] = "&" -> "&amp;"
          [] v[n] = "<" -> "&lt;"
          [] v[n] = ">" -> "&gt;"
          [] v[n] = "\"" -> "&quot;"
          [] v[n] = "\n" -> "&#10;"
          [] v[n] = "\r" -> "&#13;"
          [] v[n] = "\t" -> "&#9;"
          [] OTHER -> v[n]]

\* The serialiser's escaping of a text.
EscapeText(v) ==
    [n \in 1..Len(v) |->
        CASE v[n] = "&" -> "&amp;"
          [] v[n] = "<" -> "&lt;"
          [] v[n] = ">" -> "&gt;"
          [] v[n] = "\r" -> "&#13;"
          [] OTHER -> v[n]]

\* Attributes an XHTML page writes with their name as value when empty.
BooleanAttrs ==
    {"checked", "compact", "declare", "defer", "disabled", "ismap",
     "multiple", "nohref", "noresize", "noshade", "nowrap", "readonly",
     "selected"}

\* Elements an XHTML page gives an id after their name attribute.
IdTags == {"a", "p", "div", "img", "map", "applet", "form", "frame", "iframe"}

\* Elements an XHTML page writes as <tag /> when empty.
VoidTags ==
    {"base", "meta", "link", "hr", "br", "param", "img", "area", "input",
     "col", "frame", "isindex", "basefont"}

\* The attributes of an element, in document order.
Attrs(el) ==
    el.pre \o (IF el.hasSrc THEN <<Attr("src", el.src)>> ELSE <<>>) \o el.post

\* One attribute as written.
AttrText(a, xhtml) ==
    <<" ", a.name, "=\"">> \o
    EscapeAttr(IF xhtml /\ a.value = <<>> /\ a.name \in BooleanAttrs
               THEN <<a.name>> ELSE a.value) \o
    <<"\"">>

RECURSIVE AttrsText(_, _)
AttrsText(as, xhtml) ==
    IF as = <<>> THEN <<>>
    ELSE AttrText(Head(as), xhtml) \o AttrsText(Tail(as), xhtml)

\* What an XHTML page writes after the attributes: an id for a name without
\* one, an xml:lang for a lang.
XhtmlAttrs(el) ==
    LET named(n) == SelectSeq(Attrs(el), LAMBDA a : a.name = n)
    IN  (IF named("name") # <<>> /\ named("id") = <<>> /\ el.tag \in IdTags
         THEN <<" id=\"">> \o EscapeAttr(Head(named("name")).value) \o <<"\"">>
         ELSE <<>>) \o
        (IF named("lang") # <<>>
         THEN <<" xml:lang=\"">> \o EscapeAttr(Head(named("lang")).value) \o <<"\"">>
         ELSE <<>>)

\* etree.tostring(iframe, encoding="unicode"): the XML text of element k
\* followed by its tail, as a sequence of fragments: the tag, the attributes
\* with escaped values, the escaped text and the remaining children.  An
\* element left empty is self-closed; on an XHTML page it is written
\* <tag></tag>, or <tag /> for a void element.
RECURSIVE tostring(_, _), tostringAll(_, _)
tostring(doc, k) ==
    LET el == doc.els[k]
        open == <<"<", el.tag>> \o AttrsText(Attrs(el), doc.xhtml) \o
                (IF doc.xhtml THEN XhtmlAttrs(el) ELSE <<>>)
        kids == Children(doc, k)
        element ==
            IF el.text = <<>> /\ kids = <<>>
            THEN IF ~doc.xhtml THEN open \o <<"/>">>
                 ELSE IF el.tag \in VoidTags THEN open \o <<" />">>
                 ELSE open \o <<"></", el.tag, ">">>
            ELSE open \o <<">">> \o EscapeText(el.text) \o
                 tostringAll(doc, kids) \o <<"</", el.tag, ">">>
    IN  element \o EscapeText(el.tail)

\* The texts of the elements ks, one after the other.
tostringAll(doc, ks) ==
    IF ks = <<>> THEN <<>>
    ELSE tostring(doc, Head(ks)) \o tostringAll(doc, Tail(ks))

\* The extracted_iframes list built from one rendered document.
ExtractIframes(url, doc) ==
    LET keep == SelectSeq(IframesWithSrc(doc), LAMBDA k : Qualifies(doc.els[k].src))
    IN  [n \in 1..Len(keep) |->
            [page_url |-> url,
             src_url |-> doc.els[keep[n]].src,
             iframe_html |-> tostring(doc, keep[n])]]

\* ------------------------------------------------------------- environment
\* What the outside world does during one attempt:
\*   outcome  "ok": get, render and parse succeed and yield document doc;
\*            "raise": an exception is raised inside the try block
\*   doc      the rendered document (NoDoc when the exception comes before it)
\*   built    -1, or the number of records the loop over the iframes had
\*            built when the exception was raised inside it
\*   isReq    the exception is a requests.exceptions.RequestException
\*   msgFault str(e) contains "Session is closed" or "RuntimeError"
\*   initOk   HTMLSession() succeeds when the try block has to create a session
\*   closeOk  session.close() succeeds inside the handler's create_session
\*   createOk HTMLSession() succeeds inside the handler's create_session
Env(outcome, doc, isReq, msgFault, initOk, closeOk, createOk) ==
    [outcome |-> outcome, doc |-> doc, built |-> -1, isReq |-> isReq,
     msgFault |-> msgFault, initOk |-> initOk, closeOk |-> closeOk,
     createOk |-> createOk]

OkEnv(doc) == Env("ok", doc, FALSE, FALSE, TRUE, TRUE, TRUE)

OkEnvs == {OkEnv(Docs[d]) : d \in DocIds}

\* Exceptions whose handling never touches the session.
PlainRaiseEnvs ==
    {Env("raise", NoDoc, TRUE, m, TRUE, TRUE, TRUE) : m \in BOOLEAN}
    \cup {Env("raise", NoDoc, FALSE, FALSE, TRUE, TRUE, TRUE)}

\* Session faults: the handler recreates the session; close and the
\* constructor may each fail.
FaultEnvs ==
    {Env("raise", NoDoc, FALSE, TRUE, TRUE, c, n) : c \in BOOLEAN, n \in BOOLEAN}

RaiseEnvs == PlainRaiseEnvs \cup FaultEnvs

\* The exception comes from HTMLSession() at the top of the try block; only
\* possible when no session exists.
InitFailEnvs == {[e EXCEPT !.initOk = FALSE] : e \in RaiseEnvs}

Envs(session) ==
    OkEnvs \cup RaiseEnvs \cup (IF session = None THEN InitFailEnvs ELSE {})

\* An exception raised inside the loop over the iframes of a rendered
\* document, after n of its records were built.
LateRaiseEnvs ==
    UNION {{[Env("raise", Docs[d], FALSE, FALSE, TRUE, TRUE, TRUE)
                EXCEPT !.built = n] :
                n \in 0..(Len(ExtractIframes("", Docs[d])) - 1)} :
           d \in DocIds}

\* Responses over every generated page: a render of any page, a transport
\* error, an exception while the records are built.
PageEnvs ==
    {OkEnv(p) : p \in Pages}
    \cup {Env("raise", NoDoc, TRUE, FALSE, TRUE, TRUE, TRUE)}
    \cup LateRaiseEnvs

\* ------------------------------------------------------------------- state
VARIABLES
    urls,            \* the list handed to run_sequentially
    pc,              \* "start", "loop", "attempt", "returned", "done", "crashed"
    i,               \* position in urls of the URL being processed (0: none yet)
    attempt,         \* loop variable of extract_contact_iframe, 0..Retries
    session,         \* global session: None or a handle
    nextHandle,      \* identity of the next HTMLSession() object
    closed,          \* handles on which close() has been invoked
    results,         \* global results
    no_iframe_urls,  \* global no_iframe_urls
    failed_urls,     \* global failed_urls
    extracted_iframes, \* local list of the current extract_contact_iframe call
    result,          \* return value of the current extract_contact_iframe call
    log,             \* history: the attempts of the current call
    where,           \* history: the exit taken by each finished call
    base,            \* history: bucket lengths when the current call began
    twin             \* a second run fed the swapped environment (SpecSwap only)

prog == <<pc, i, attempt, session, nextHandle, closed, results, no_iframe_urls,
          failed_urls, extracted_iframes, result, log, where, base>>
vars == <<urls, prog, twin>>

\* Python None / a list as a return value.
RetNone == [none |-> TRUE, recs |-> <<>>]
Ret(recs) == [none |-> FALSE, recs |-> recs]

\* The program state as one record, so that each operation is a function on states.
Cur ==
    [pc |-> pc, i |-> i, attempt |-> attempt, session |-> session,
     nextHandle |-> nextHandle, closed |-> closed, results |-> results,
     no_iframe_urls |-> no_iframe_urls, failed_urls |-> failed_urls,
     extracted_iframes |-> extracted_iframes,
     result |-> result, log |-> log, where |-> where, base |-> base]

Install(t) ==
    /\ pc' = t.pc
    /\ i' = t.i
    /\ attempt' = t.attempt
    /\ session' = t.session
    /\ nextHandle' = t.nextHandle
    /\ closed' = t.closed
    /\ results' = t.results
    /\ no_iframe_urls' = t.no_iframe_urls
    /\ failed_urls' = t.failed_urls
    /\ extracted_iframes' = t.extracted_iframes
    /\ result' = t.result
    /\ log' = t.log
    /\ where' = t.where
    /\ base' = t.base

\* Module level: the three lists are empty and session is None.
InitState ==
    [pc |-> "start", i |-> 0, attempt |-> 0, session |-> None,
     nextHandle |-> 1, closed |-> {}, results |-> <<>>,
     no_iframe_urls |-> <<>>, failed_urls |-> <<>>,
     extracted_iframes |-> <<>>,
     result |-> RetNone, log |-> <<>>, where |-> <<>>,
     base |-> [results |-> 0, no_iframe_urls |-> 0, failed_urls |-> 0,
               session |-> None]]

\* ---------------------------------------------------------- create_session
\* create_session that hands back the existing session when there is one.
create_session_reuse(s, closeOk, createOk) ==
    IF s.session # None THEN [st |-> s, raised |-> FALSE]
    ELSE IF createOk
    THEN [st |-> [s EXCEPT !.session = s.nextHandle, !.nextHandle = @ + 1],
          raised |-> FALSE]
    ELSE [st |-> s, raised |-> TRUE]

\* create_session that replaces the session without closing the old one.
create_session_no_close(s, closeOk, createOk) ==
    IF createOk
    THEN [st |-> [s EXCEPT !.session = s.nextHandle, !.nextHandle = @ + 1],
          raised |-> FALSE]
    ELSE [st |-> s, raised |-> TRUE]

\* create_session without the try around session.close(): a failing close
\* leaves the function by exception.
create_session_close_raises(s, closeOk, createOk) ==
    LET c == IF s.session # None
             THEN [s EXCEPT !.closed = @ \cup {s.session}]
             ELSE s
    IN  IF s.session # None /\ ~closeOk
        THEN [st |-> c, raised |-> TRUE]
        ELSE IF createOk
        THEN [st |-> [c EXCEPT !.session = c.nextHandle, !.nextHandle = @ + 1],
              raised |-> FALSE]
        ELSE [st |-> c, raised |-> TRUE]

\* Closes the current session if there is one (a failing close is swallowed by
\* the bare except), then installs a fresh HTMLSession().  When the constructor
\* raises, the global still names the old, closed handle.
create_session(s, closeOk, createOk) ==
    LET c == IF s.session # None
             THEN [s EXCEPT !.closed = @ \cup {s.session}]
             ELSE s
    IN  IF createOk
        THEN [st |-> [c EXCEPT !.session = c.nextHandle, !.nextHandle = @ + 1],
              raised |-> FALSE]
        ELSE [st |-> c, raised |-> TRUE]

\* -------------------------------------------------- extract_contact_iframe
\* One entry of the attempt history.
\*   env     the environment's response
\*   handle  the session the GET was issued on (None: no GET was issued)
\*   slept   seconds of time.sleep before the next iteration
\*   after   the global session when the iteration ended
LogEntry(e, handle, slept, after) ==
    [env |-> e, handle |-> handle, slept |-> slept, after |-> after]

\* One entry of the exit history: the exit taken and the records returned.
Exit(kind, n) == [exit |-> kind, n |-> n]

Logged(s, entry) == [s EXCEPT !.log = Append(@, entry)]

\* if "Session is closed" in str(e) or "RuntimeError" in str(e)
IsSessionFault(e) == e.msgFault

\* End of one loop iteration whose handler completed: next attempt, or the
\* `return None` after the loop.
NextIteration(s) ==
    IF s.attempt + 1 < Retries
    THEN [s EXCEPT !.attempt = @ + 1]
    ELSE [s EXCEPT !.attempt = @ + 1, !.pc = "returned", !.result = RetNone]

\* OnRendered without the `return extracted_iframes`: a match falls through to
\* the no-iframe logging.
OnRenderedFallThrough(s, url, recs) ==
    [s EXCEPT !.pc = "returned", !.result = RetNone,
              !.no_iframe_urls = Append(@, [page_url |-> url]),
              !.where = Append(@, Exit("nomatch", 0))]

\* OnRendered without the `return None`: a clean negative is logged and the
\* loop goes on.
OnRenderedRetryNegative(s, url, recs) ==
    IF recs # <<>>
    THEN [s EXCEPT !.pc = "returned", !.result = Ret(recs),
                   !.where = Append(@, Exit("matched", Len(recs)))]
    ELSE NextIteration([s EXCEPT !.no_iframe_urls = Append(@, [page_url |-> url])])

\* The page rendered and parsed: return the records, or log a clean negative.
OnRendered(s, url, recs) ==
    IF recs # <<>>
    THEN [s EXCEPT !.pc = "returned", !.result = Ret(recs),
                   !.where = Append(@, Exit("matched", Len(recs)))]
    ELSE [s EXCEPT !.pc = "returned", !.result = RetNone,
                   !.no_iframe_urls = Append(@, [page_url |-> url]),
                   !.where = Append(@, Exit("nomatch", 0))]

\* A RequestException handler that records a failure on every failed attempt.
OnRequestExceptionRecordsFailure(s, url, e, handle) ==
    NextIteration(Logged([s EXCEPT !.failed_urls = Append(@, [page_url |-> url])],
                         LogEntry(e, handle, TransportSleep, s.session)))

\* A RequestException handler that recreates the session on every error.
OnRequestExceptionRecreates(s, url, e, handle) ==
    LET c == create_session(s, TRUE, TRUE)
    IN  NextIteration(Logged(c.st, LogEntry(e, handle, TransportSleep, c.st.session)))

\* except requests.exceptions.RequestException: log, sleep, next attempt.
OnRequestException(s, url, e, handle) ==
    NextIteration(Logged(s, LogEntry(e, handle, TransportSleep, s.session)))

\* A session-fault branch that does not count the attempt against the budget.
OnSessionFaultFreeRetry(s, url, e, handle) ==
    LET c == create_session(s, e.closeOk, e.createOk)
    IN  IF c.raised
        THEN [Logged(c.st, LogEntry(e, handle, 0, c.st.session)) EXCEPT !.pc = "crashed"]
        ELSE Logged(c.st, LogEntry(e, handle, SessionSleep, c.st.session))

\* except Exception, session-fault branch: recreate the session outside any
\* try, so a failing constructor leaves the function by exception.
OnSessionFault(s, url, e, handle) ==
    LET c == create_session(s, e.closeOk, e.createOk)
    IN  IF c.raised
        THEN [Logged(c.st, LogEntry(e, handle, 0, c.st.session)) EXCEPT !.pc = "crashed"]
        ELSE NextIteration(Logged(c.st, LogEntry(e, handle, SessionSleep, c.st.session)))

\* The other-errors branch without `attempt == retries - 1`: every such error
\* records the URL as failed.
OnOtherErrorAlwaysRecords(s, url, e, handle) ==
    NextIteration([Logged(s, LogEntry(e, handle, 0, s.session))
                      EXCEPT !.failed_urls = Append(@, [page_url |-> url])])

\* except Exception, other errors: on the last attempt record the URL as failed.
OnOtherError(s, url, e, handle) ==
    LET l == Logged(s, LogEntry(e, handle, 0, s.session))
    IN  IF s.attempt = Retries - 1
        THEN NextIteration([l EXCEPT !.failed_urls = Append(@, [page_url |-> url]),
                                     !.where = Append(@, Exit("failed", 0))])
        ELSE NextIteration(l)

\* The two except clauses, in the order Python tries them.
OnRaise(s, url, e, handle) ==
    IF e.isReq THEN OnRequestException(s, url, e, handle)
    ELSE IF IsSessionFault(e) THEN OnSessionFault(s, url, e, handle)
    ELSE OnOtherError(s, url, e, handle)

\* BuildRecords without the `extracted_iframes = []` of each attempt.
BuildRecordsKeepsOld(s, url, doc, upto) ==
    [s EXCEPT !.extracted_iframes = @ \o SubSeq(ExtractIframes(url, doc), 1, upto)]

\* extracted_iframes = [] and the loop that appends one record per qualifying
\* iframe, as far as it got: the first upto records of the document.
BuildRecords(s, url, doc, upto) ==
    [s EXCEPT !.extracted_iframes = SubSeq(ExtractIframes(url, doc), 1, upto)]

\* One iteration of `for attempt in range(retries)`.
ExtractAttempt(s, url, e) ==
    LET init == IF s.session = None
                THEN create_session(s, TRUE, e.initOk)
                ELSE [st |-> s, raised |-> FALSE]
        t == init.st
        all == Len(ExtractIframes(url, e.doc))
        b == BuildRecords(t, url, e.doc, IF e.outcome = "ok" THEN all ELSE e.built)
    IN  IF init.raised
        THEN OnRaise(t, url, e, None)
        ELSE IF e.outcome = "raise"
        THEN OnRaise(IF e.built >= 0 THEN b ELSE t, url, e, t.session)
        ELSE OnRendered(Logged(b, LogEntry(e, t.session, 0, t.session)), url,
                        b.extracted_iframes)

\* -------------------------------------------------------- run_sequentially
\* session = create_session(): not inside any try.
RunStart(s, createOk) ==
    LET c == create_session(s, TRUE, createOk)
    IN  IF c.raised THEN [c.st EXCEPT !.pc = "crashed"]
        ELSE [c.st EXCEPT !.pc = "loop"]

\* A call that goes on with the attempt counter of the call before it.
CallExtractKeepsAttempt(s) ==
    [s EXCEPT !.pc = "attempt", !.i = @ + 1, !.log = <<>>,
              !.result = RetNone, !.extracted_iframes = <<>>,
              !.base = [results |-> Len(s.results),
                        no_iframe_urls |-> Len(s.no_iframe_urls),
                        failed_urls |-> Len(s.failed_urls),
                        session |-> s.session]]

\* The for loop hands the next URL to extract_contact_iframe.
CallExtract(s) ==
    [s EXCEPT !.pc = "attempt", !.i = @ + 1, !.attempt = 0, !.log = <<>>,
              !.result = RetNone, !.extracted_iframes = <<>>,
              !.base = [results |-> Len(s.results),
                        no_iframe_urls |-> Len(s.no_iframe_urls),
                        failed_urls |-> Len(s.failed_urls),
                        session |-> s.session]]

\* Collect that puts the new records in front of the old ones.
CollectPrepend(s) ==
    LET w == IF Len(s.where) < s.i THEN Append(s.where, Exit("none", 0))
             ELSE s.where
    IN  IF ~s.result.none
        THEN [s EXCEPT !.pc = "loop", !.results = s.result.recs \o @, !.where = w]
        ELSE [s EXCEPT !.pc = "loop", !.where = w]

\* if result is not None: results.extend(result)
Collect(s) ==
    LET w == IF Len(s.where) < s.i THEN Append(s.where, Exit("none", 0))
             ELSE s.where
    IN  IF ~s.result.none
        THEN [s EXCEPT !.pc = "loop", !.results = @ \o s.result.recs, !.where = w]
        ELSE [s EXCEPT !.pc = "loop", !.where = w]

\* run_sequentially without its last line.
FinalCloseForgets(s, closeOk) == [s EXCEPT !.pc = "done"]

\* session.close() after the loop: not inside any try.
FinalClose(s, closeOk) ==
    [s EXCEPT !.closed = @ \cup {s.session},
              !.pc = IF closeOk THEN "done" ELSE "crashed"]

\* ----------------------------------------------------------------- actions
ProgInit ==
    /\ pc = InitState.pc
    /\ i = InitState.i
    /\ attempt = InitState.attempt
    /\ session = InitState.session
    /\ nextHandle = InitState.nextHandle
    /\ closed = InitState.closed
    /\ results = InitState.results
    /\ no_iframe_urls = InitState.no_iframe_urls
    /\ failed_urls = InitState.failed_urls
    /\ extracted_iframes = InitState.extracted_iframes
    /\ result = InitState.result
    /\ log = InitState.log
    /\ where = InitState.where
    /\ base = InitState.base
    /\ twin = InitState

Init ==
    /\ urls \in UrlSeqs
    /\ ProgInit

Start ==
    /\ pc = "start"
    /\ \E ok \in BOOLEAN : Install(RunStart(Cur, ok))
    /\ UNCHANGED <<urls, twin>>

BeginUrl ==
    /\ pc = "loop"
    /\ i < Len(urls)
    /\ Install(CallExtract(Cur))
    /\ UNCHANGED <<urls, twin>>

Attempt ==
    /\ pc = "attempt"
    /\ \E e \in Envs(session) : Install(ExtractAttempt(Cur, urls[i], e))
    /\ UNCHANGED <<urls, twin>>

Return ==
    /\ pc = "returned"
    /\ Install(Collect(Cur))
    /\ UNCHANGED <<urls, twin>>

Finish ==
    /\ pc = "loop"
    /\ i = Len(urls)
    /\ \E ok \in BOOLEAN : Install(FinalClose(Cur, ok))
    /\ UNCHANGED <<urls, twin>>

Next == Start \/ BeginUrl \/ Attempt \/ Return \/ Finish

Spec == Init /\ [][Next]_vars

\* ------------------------------------------------- one URL, every page
\* A sitemap of one URL.
InitPage ==
    /\ urls \in {<<u>> : u \in Urls}
    /\ ProgInit

PageAttempt ==
    /\ pc = "attempt"
    /\ \E e \in PageEnvs : Install(ExtractAttempt(Cur, urls[i], e))
    /\ UNCHANGED <<urls, twin>>

\* The run up to the point where the URL's result is stored.
NextPage == Start \/ BeginUrl \/ PageAttempt \/ Return

SpecPage == InitPage /\ [][NextPage]_vars

\* ------------------------------------------------------------ direct calls
\* extract_contact_iframe is called for each URL of the list by a caller that
\* did not go through run_sequentially: the module has just been loaded and
\* session is None.
Direct ==
    /\ pc = "start"
    /\ Install([Cur EXCEPT !.pc = "loop"])
    /\ UNCHANGED <<urls, twin>>

\* The same after run_sequentially([]) has completed: session names a handle
\* that was closed.
RunEmpty ==
    /\ pc = "start"
    /\ Install([FinalClose(RunStart(Cur, TRUE), TRUE) EXCEPT !.pc = "loop"])
    /\ UNCHANGED <<urls, twin>>

NextCalls == Start \/ Direct \/ BeginUrl \/ Attempt \/ Return

SpecCalls == Init /\ [][NextCalls]_vars

\* ------------------------------------------- the same URL, processed twice
\* The list names one URL twice.
InitTwice ==
    /\ urls \in {<<u, u>> : u \in Urls}
    /\ ProgInit

\* First call: any responses (the session, when one has to be created at the
\* top of the try block, is created).
FirstAttempt ==
    /\ pc = "attempt"
    /\ i = 1
    /\ \E e \in OkEnvs \cup RaiseEnvs : Install(ExtractAttempt(Cur, urls[i], e))
    /\ UNCHANGED <<urls, twin>>

\* The first call returns: twin keeps the state it returned in.
FirstReturn ==
    /\ pc = "returned"
    /\ i = 1
    /\ Install(Collect(Cur))
    /\ twin' = Cur
    /\ UNCHANGED urls

\* Second call: attempt k gets the response attempt k of the first call got.
ReplayAttempt ==
    /\ pc = "attempt"
    /\ i = 2
    /\ Len(log) < Len(twin.log)
    /\ Install(ExtractAttempt(Cur, urls[i], twin.log[Len(log) + 1].env))
    /\ UNCHANGED <<urls, twin>>

SecondReturn ==
    /\ i = 2
    /\ Return

NextTwice ==
    \/ Start
    \/ Direct
    \/ RunEmpty
    \/ BeginUrl
    \/ FirstAttempt
    \/ FirstReturn
    \/ ReplayAttempt
    \/ SecondReturn

SpecTwice == InitTwice /\ [][NextTwice]_vars

\* ------------------------------------------- two runs, errors interchanged
\* The same response with a transport error (a RequestException whose message
\* names no session fault) turned into a render error (another exception whose
\* message names no session fault), and the reverse.
SwapEnv(e) ==
    IF e.outcome = "raise" /\ ~e.msgFault THEN [e EXCEPT !.isReq = ~@] ELSE e

SwapStart ==
    /\ pc = "start"
    /\ \E ok \in BOOLEAN :
        /\ Install(RunStart(Cur, ok))
        /\ twin' = RunStart(twin, ok)
    /\ UNCHANGED urls

SwapBeginUrl ==
    /\ pc = "loop"
    /\ i < Len(urls)
    /\ Install(CallExtract(Cur))
    /\ twin' = CallExtract(twin)
    /\ UNCHANGED urls

SwapAttempt ==
    /\ pc = "attempt"
    /\ \E e \in Envs(session) :
        /\ Install(ExtractAttempt(Cur, urls[i], e))
        /\ twin' = ExtractAttempt(twin, urls[i], SwapEnv(e))
    /\ UNCHANGED urls

SwapReturn ==
    /\ pc = "returned"
    /\ Install(Collect(Cur))
    /\ twin' = Collect(twin)
    /\ UNCHANGED urls

SwapFinish ==
    /\ pc = "loop"
    /\ i = Len(urls)
    /\ \E ok \in BOOLEAN :
        /\ Install(FinalClose(Cur, ok))
        /\ twin' = FinalClose(twin, ok)
    /\ UNCHANGED urls

NextSwap == SwapStart \/ SwapBeginUrl \/ SwapAttempt \/ SwapReturn \/ SwapFinish

SpecSwap == Init /\ [][NextSwap]_vars

\* ------------------------------------------------------------------ claims
\* Entries each bucket gained since the current call began.
GrewResults == Len(results) - base.results
GrewNoIframe == Len(no_iframe_urls) - base.no_iframe_urls
GrewFailed == Len(failed_urls) - base.failed_urls

\* The call for urls[i] has returned and run_sequentially has stored its result.
CallDone == i >= 1 /\ pc \in {"loop", "done"}

\* Attempt k of the current call rendered and parsed its page.
Rendered(k) == log[k].env.outcome = "ok"
\* ... raised a RequestException / another exception.
Raised(k) == log[k].env.outcome = "raise"
Transport(k) == Raised(k) /\ log[k].env.isReq
\* ... raised a non-transport exception whose message names a session fault.
SessionInvalid(k) == Raised(k) /\ ~log[k].env.isReq /\ log[k].env.msgFault
\* ... raised a non-transport exception with any other message (a render error).
RenderError(k) == Raised(k) /\ ~log[k].env.isReq /\ ~log[k].env.msgFault

\* The records attempt k's document holds.
RecsAt(k) == ExtractIframes(urls[i], log[k].env.doc)

\* The last n entries of a sequence.
Tail_n(seq, n) == SubSeq(seq, Len(seq) - n + 1, Len(seq))

\* C1: when the call for a URL has returned, the URL is in exactly one of the
\* three buckets (results, no_iframe_urls, failed_urls): never none, never two.
C1_ExactlyOneBucket ==
    CallDone =>
        Cardinality({b \in {"results", "no_iframe_urls", "failed_urls"} :
            \/ b = "results" /\ GrewResults > 0
            \/ b = "no_iframe_urls" /\ GrewNoIframe > 0
            \/ b = "failed_urls" /\ GrewFailed > 0}) = 1

\* C2: if every attempt of a call ended in an error, exactly Retries attempts
\* were made and the URL was appended exactly once to failed_urls.
C2_AllErrorsFail ==
    (CallDone /\ \A k \in 1..Len(log) : Raised(k)) =>
        /\ Len(log) = Retries
        /\ GrewFailed = 1
        /\ failed_urls[Len(failed_urls)] = [page_url |-> urls[i]]

\* C3: an attempt that renders and yields qualifying iframes is the last
\* attempt of its call; the call returns its records and the URL enters
\* neither no_iframe_urls nor failed_urls.
C3_MatchReturnsImmediately ==
    \A k \in 1..Len(log) :
        (Rendered(k) /\ RecsAt(k) # <<>>) =>
            /\ k = Len(log)
            /\ pc # "attempt"
            /\ result = Ret(RecsAt(k))
            /\ GrewNoIframe = 0
            /\ GrewFailed = 0
            /\ CallDone => Tail_n(results, GrewResults) = RecsAt(k)

\* C3 witness: a first-attempt match, with two attempts of budget left, stored.
C3_Witness ==
    /\ pc = "loop"
    /\ Len(log) = 1
    /\ Rendered(1)
    /\ RecsAt(1) # <<>>
    /\ attempt < Retries - 1
    /\ GrewResults = Len(RecsAt(1))

\* C4: an attempt that renders and yields no qualifying iframe is the last
\* attempt of its call; the URL is appended exactly once to no_iframe_urls
\* and never to failed_urls.
C4_CleanNegativeIsTerminal ==
    \A k \in 1..Len(log) :
        (Rendered(k) /\ RecsAt(k) = <<>>) =>
            /\ k = Len(log)
            /\ pc # "attempt"
            /\ result = RetNone
            /\ GrewNoIframe = 1
            /\ no_iframe_urls[Len(no_iframe_urls)] = [page_url |-> urls[i]]
            /\ GrewFailed = 0
            /\ GrewResults = 0

\* C4 witness: a clean negative on the second attempt, one attempt unused.
C4_Witness ==
    /\ pc = "loop"
    /\ Len(log) = 2
    /\ Raised(1)
    /\ Rendered(2)
    /\ RecsAt(2) = <<>>
    /\ attempt = 1
    /\ GrewNoIframe = 1


\* The handles the GETs of attempts 1..k of the current call were issued on.
HandlesUpTo(k) == {log[j].handle : j \in 1..k}

\* C5: a session-invalid error at attempt k < Retries makes the handler call
\* create_session (the handle attempt k used is closed) before attempt k+1,
\* and attempt k+1 runs on a handle none of attempts 1..k used.
C5_SessionFaultRecreates ==
    \A k \in 1..Len(log) :
        (k < Retries /\ SessionInvalid(k)) =>
            /\ log[k].handle \in closed
            /\ k < Len(log) =>
                  /\ log[k + 1].handle # None
                  /\ log[k + 1].handle \notin HandlesUpTo(k)
            /\ (k = Len(log) /\ pc = "attempt") =>
                  /\ session # None
                  /\ session \notin HandlesUpTo(k)

\* C5 witness: attempts 1 and 2 share a handle, attempt 2 hits a session
\* fault, attempt 3 runs on another handle.
C5_Witness ==
    /\ Len(log) = 3
    /\ ~SessionInvalid(1)
    /\ SessionInvalid(2)
    /\ log[1].handle = log[2].handle
    /\ log[3].handle # log[2].handle
    /\ log[2].handle \in closed

\* C6: no exception leaves extract_contact_iframe: the run never ends inside
\* the call for a URL, so every later URL is attempted and the final close is
\* reached.
C6_ErrorsContained == ~(pc = "crashed" /\ i >= 1 /\ Len(where) < i)

\* C7: transport errors on attempts 1..k-1 and a successful render on attempt
\* k give exactly k attempts and attempt k's outcome, with nothing added to
\* failed_urls.
C7_RetryThenSuccess ==
    \A k \in 1..Len(log) :
        (Rendered(k) /\ \A j \in 1..(k - 1) : Transport(j)) =>
            /\ Len(log) = k
            /\ pc # "attempt"
            /\ GrewFailed = 0
            /\ IF RecsAt(k) # <<>>
               THEN /\ result = Ret(RecsAt(k))
                    /\ GrewNoIframe = 0
                    /\ CallDone => Tail_n(results, GrewResults) = RecsAt(k)
               ELSE /\ result = RetNone
                    /\ GrewNoIframe = 1
                    /\ GrewResults = 0

\* C7 witness: two transport errors, then a match on the last attempt, stored.
C7_Witness ==
    /\ pc = "loop"
    /\ Len(log) = Retries
    /\ Transport(1)
    /\ Transport(2)
    /\ Rendered(Retries)
    /\ RecsAt(Retries) # <<>>
    /\ GrewResults = Len(RecsAt(Retries))

\* C8: a run and the run that gets render errors where the first gets
\* transport errors (and the reverse) make the same number of attempts on the
\* same handles and end with the same outcome and the same buckets.
C8_RenderLikeTransport ==
    /\ twin.pc = pc
    /\ Len(twin.log) = Len(log)
    /\ \A k \in 1..Len(log) : twin.log[k].handle = log[k].handle
    /\ twin.result = result
    /\ twin.results = results
    /\ twin.no_iframe_urls = no_iframe_urls
    /\ twin.failed_urls = failed_urls

\* Handles created and not yet closed.
Live == (1..(nextHandle - 1)) \ closed

\* C9: between the initial create_session and the final close exactly one
\* handle is live, the global session; never two, also after a recreation
\* whose close failed.
C9_OneLiveSession ==
    /\ Cardinality(Live) <= 1
    /\ pc \in {"loop", "attempt", "returned"} => Live = {session}

\* C9 witness: the session was recreated, the old handle's close failed, and
\* the next attempt is about to run.
C9_Witness ==
    /\ pc = "attempt"
    /\ Len(log) >= 1
    /\ SessionInvalid(Len(log))
    /\ ~log[Len(log)].env.closeOk
    /\ session # log[Len(log)].handle
    /\ Live = {session}

\* Positions of the finished calls that took the given exit, in input order.
Positions(kind, upto) ==
    SelectSeq([p \in 1..upto |-> p], LAMBDA p : where[p].exit = kind)

\* The page_url entries the calls at the given positions leave, in order.
PagesAt(ps) == [n \in 1..Len(ps) |-> [page_url |-> urls[ps[n]]]]

\* The page_url of every record the matched calls up to a position returned.
RECURSIVE MatchedPages(_)
MatchedPages(upto) ==
    IF upto = 0 THEN <<>>
    ELSE MatchedPages(upto - 1) \o
         (IF where[upto].exit = "matched"
          THEN [n \in 1..where[upto].n |-> urls[upto]]
          ELSE <<>>)

\* Calls whose return value run_sequentially has stored.
Stored == IF pc \in {"attempt", "returned"} THEN i - 1 ELSE Len(where)

\* C10: URLs are processed one at a time in input order, and each bucket
\* lists its URLs in input order.
C10_InputOrder ==
    /\ Len(where) \in {i - 1, i}
    /\ pc = "attempt" => Len(where) = i - 1
    /\ no_iframe_urls = PagesAt(Positions("nomatch", Len(where)))
    /\ failed_urls = PagesAt(Positions("failed", Len(where)))
    /\ [n \in 1..Len(results) |-> results[n].page_url] = MatchedPages(Stored)

\* C10 witness: two different URLs, both matched, the run is over.
C10_Witness ==
    /\ pc = "done"
    /\ Len(urls) = 2
    /\ urls[1] # urls[2]
    /\ where[1].exit = "matched"
    /\ where[2].exit = "matched"
    /\ results[1].page_url = urls[1]
    /\ results[Len(results)].page_url = urls[2]


\* ------------------------------------------------------- claims on pages
\* Element j and its ancestors in a document.
RECURSIVE ElAncSelf(_, _)
ElAncSelf(doc, j) == IF j = 0 THEN {} ELSE {j} \cup ElAncSelf(doc, doc[j].parent)

\* Element j lies inside a <noscript> element (at any depth).
InsideNoscript(doc, j) ==
    \E a \in ElAncSelf(doc, doc[j].parent) : doc[a].tag = "noscript"

\* The needle occurs in a src value.
HasNeedle(src) == Needle \in {src[x] : x \in DOMAIN src}

\* The qualifying iframes of a document: outside every noscript, with a src
\* that contains the needle.
QualifyingEls(doc) ==
    {j \in DOMAIN doc :
        /\ doc[j].tag = "iframe"
        /\ doc[j].hasSrc
        /\ HasNeedle(doc[j].src)
        /\ ~InsideNoscript(doc, j)}

\* The n-th element of a set of positions, in document order.
NthOf(S, n) == CHOOSE j \in S : Cardinality({x \in S : x < j}) = n - 1

\* The document of the last attempt of the current call.
LastPage == log[Len(log)].env.doc
\* Its elements.
LastDoc == LastPage.els

\* The current call ended with a rendered page.
EndedRendered == Len(log) >= 1 /\ Rendered(Len(log)) /\ pc # "attempt"

\* C11: a rendered page whose iframes all lie inside <noscript> gives no
\* match: the call returns None, the URL goes to no_iframe_urls and nothing
\* of it reaches results.
C11_NoscriptOnlyIsNoMatch ==
    (EndedRendered /\ \A j \in DOMAIN LastDoc :
                        LastDoc[j].tag = "iframe" => InsideNoscript(LastDoc, j)) =>
        /\ result = RetNone
        /\ extracted_iframes = <<>>
        /\ GrewNoIframe = 1
        /\ no_iframe_urls[Len(no_iframe_urls)] = [page_url |-> urls[i]]
        /\ GrewResults = 0

\* C11 witness: the only iframe qualifies and lies two levels deep inside a
\* noscript; the call has returned and was stored as a no-match.
C11_Witness ==
    /\ pc = "loop"
    /\ EndedRendered
    /\ Len(LastDoc) = 3
    /\ LastDoc[1].tag = "noscript"
    /\ LastDoc[2].tag = "div" /\ LastDoc[2].parent = 1
    /\ LastDoc[3].tag = "iframe" /\ LastDoc[3].parent = 2
    /\ HasNeedle(LastDoc[3].src)
    /\ GrewNoIframe = 1

\* C12: the records of a match are, in document order, exactly the iframes of
\* the rendered page outside every noscript whose src contains the needle;
\* every record in results has a src_url that contains the needle.
C12_ExactlyQualifying ==
    /\ EndedRendered =>
         LET Q == QualifyingEls(LastDoc)
         IN  /\ result.none <=> Q = {}
             /\ Len(result.recs) = Cardinality(Q)
             /\ \A n \in 1..Len(result.recs) :
                   /\ result.recs[n].page_url = urls[i]
                   /\ result.recs[n].src_url = LastDoc[NthOf(Q, n)].src
                   /\ result.recs[n].iframe_html = tostring(LastPage, NthOf(Q, n))
             /\ pc = "loop" => Tail_n(results, GrewResults) = result.recs
    /\ \A n \in 1..Len(results) : HasNeedle(results[n].src_url)

\* C12 witness: a page with a foreign iframe, then two qualifying ones in the
\* order Form, X; the two records are stored in that order.
C12_Witness ==
    /\ pc = "loop"
    /\ EndedRendered
    /\ Len(LastDoc) = 3
    /\ LastDoc[1].hasSrc /\ ~HasNeedle(LastDoc[1].src)
    /\ LastDoc[2].src = SrcForm
    /\ LastDoc[3].src = SrcX
    /\ QualifyingEls(LastDoc) = {2, 3}
    /\ Len(results) = 2
    /\ results[1].src_url = SrcForm
    /\ results[2].src_url = SrcX

\* C13: the records a call returns were all built from the document of its
\* last attempt; nothing built during an earlier attempt is among them.
C13_SingleRenderPass ==
    (pc # "attempt" /\ ~result.none) =>
        /\ EndedRendered
        /\ Len(result.recs) = Cardinality(QualifyingEls(LastDoc))
        /\ \A n \in 1..Len(result.recs) :
              \E j \in QualifyingEls(LastDoc) :
                  result.recs[n] = [page_url |-> urls[i],
                                    src_url |-> LastDoc[j].src,
                                    iframe_html |-> tostring(LastPage, j)]
        /\ result.recs = extracted_iframes

\* C13 witness: attempt 1 failed with one record already built from another
\* document; attempt 2 matched.
C13_Witness ==
    /\ pc = "loop"
    /\ Len(log) = 2
    /\ Raised(1)
    /\ log[1].env.built = 1
    /\ Rendered(2)
    /\ log[2].env.doc # log[1].env.doc
    /\ ~result.none
    /\ result.recs[1].src_url = SrcForm


\* ------------------------------------------- claims on retries and sessions
\* C14: every attempt but the last that ends in a transport or a render error
\* is followed by a sleep before the next attempt.
C14_BackoffAfterError ==
    \A k \in 1..Len(log) :
        (k < Retries /\ (Transport(k) \/ RenderError(k))) => log[k].slept > 0

\* C15: a call issues at most Retries attempts, however many of them end in a
\* session fault and a recreation: the attempt counter counts every attempt,
\* is never set back, and the call is over once it reaches Retries.
C15_SharedBudget ==
    /\ Len(log) <= Retries
    /\ attempt <= Retries
    /\ pc = "attempt" => (attempt = Len(log) /\ attempt < Retries)
    /\ Len(log) = Retries => pc # "attempt"

\* C15 witness: three session faults, three recreations, and the call is over.
C15_Witness ==
    /\ pc = "loop"
    /\ Len(log) = Retries
    /\ \A k \in 1..Retries : SessionInvalid(k)
    /\ \A k \in 1..Retries : log[k].after # log[k].handle
    /\ attempt = Retries

\* The exception of attempt k left extract_contact_iframe.
Escaped(k) == k = Len(log) /\ pc = "crashed" /\ Len(where) < i

\* C16: a create_session call closes the previous handle and, when the
\* constructor succeeds, installs a handle never used before; a failing
\* close neither leaves the function as an exception nor stops the creation.
C16_CreateSession ==
    /\ pc \in {"loop", "attempt", "returned"} =>
          (session = nextHandle - 1 /\ session \notin closed)
    /\ \A k \in 1..Len(log) :
          SessionInvalid(k) =>
              /\ log[k].handle # None => log[k].handle \in closed
              /\ log[k].env.createOk =>
                    /\ ~Escaped(k)
                    /\ log[k].after # None
                    /\ log[k].after \notin HandlesUpTo(k)
                    /\ k < Len(log) => log[k + 1].handle = log[k].after

\* C16 witness: two recreations in a row whose close failed both times; the
\* third handle is installed.
C16_Witness ==
    /\ pc = "attempt"
    /\ Len(log) = 2
    /\ SessionInvalid(1) /\ ~log[1].env.closeOk
    /\ SessionInvalid(2) /\ ~log[2].env.closeOk
    /\ log[1].after = log[2].handle
    /\ log[2].after = session
    /\ Cardinality({log[1].handle, log[2].handle, session}) = 3

\* C18: an entry enters failed_urls only on the last attempt of a call all of
\* whose attempts raised; the call made Retries attempts, returned None and
\* left the URL in neither results nor no_iframe_urls.
C18_FailedIsSound ==
    GrewFailed # 0 =>
        /\ GrewFailed = 1
        /\ failed_urls[Len(failed_urls)] = [page_url |-> urls[i]]
        /\ Len(log) = Retries
        /\ attempt = Retries
        /\ \A k \in 1..Retries : Raised(k)
        /\ pc # "attempt"
        /\ result = RetNone
        /\ GrewNoIframe = 0
        /\ GrewResults = 0

\* C18 witness: a transport error, a session fault and a render error; the
\* URL is in failed_urls.
C18_Witness ==
    /\ pc = "loop"
    /\ Len(log) = Retries
    /\ Transport(1)
    /\ SessionInvalid(2)
    /\ RenderError(3)
    /\ GrewFailed = 1

\* C20: when run_sequentially has completed, close was invoked on every handle
\* ever created; every replaced handle was closed when it was replaced; and
\* an attempt never begins on a closed handle.
C20_NoSessionLeak ==
    /\ pc = "done" => closed = 1..(nextHandle - 1)
    /\ \A h \in 1..(nextHandle - 1) : h # session => h \in closed
    /\ pc = "attempt" => (session # None /\ session \notin closed)

\* C20 witness: a completed run with at least two recreations, every handle closed.
C20_Witness ==
    /\ pc = "done"
    /\ nextHandle >= 4
    /\ closed = 1..(nextHandle - 1)


\* The global session when attempt k of the current call began.
Before(k) == IF k = 1 THEN base.session ELSE log[k - 1].after

\* C19: an attempt that starts with a session and does not end in a session
\* fault (a match, a clean negative, a RequestException, an error with
\* another message) runs on that session and leaves it in place; the session
\* changes only when there was none or on a session fault, so attempts and
\* URLs in a row without a session fault use one handle.
C19_SessionFrame ==
    /\ \A k \in 1..Len(log) :
          /\ (Before(k) # None /\ ~SessionInvalid(k)) =>
                (log[k].handle = Before(k) /\ log[k].after = Before(k))
          /\ log[k].after # Before(k) => (Before(k) = None \/ SessionInvalid(k))
    /\ (i >= 1 /\ pc \in {"attempt", "returned", "loop"}) =>
          session = (IF log = <<>> THEN base.session ELSE log[Len(log)].after)

\* C19 witness: the second URL's call went through a transport error, a
\* render error and a render, all on the handle the first URL's call left.
C19_Witness ==
    /\ pc = "loop"
    /\ i = 2
    /\ Len(log) = Retries
    /\ Transport(1)
    /\ RenderError(2)
    /\ Rendered(3)
    /\ base.session # None
    /\ \A k \in 1..Retries : log[k].handle = base.session
    /\ session = base.session

\* The second call for the same URL is under way or over.
SecondCall == i = 2 /\ twin.pc = "returned"

\* C17: a second call for the same URL that gets the same responses makes
\* the same attempts and ends like the first: same return value, same
\* records, same bucket, whatever session the first call left behind.
C17_Idempotent ==
    SecondCall =>
        /\ pc # "crashed"
        /\ pc = "attempt" => Len(log) < Len(twin.log)
        /\ pc \in {"returned", "loop"} =>
              /\ Len(log) = Len(twin.log)
              /\ result = twin.result
              /\ GrewNoIframe = Len(twin.no_iframe_urls) - twin.base.no_iframe_urls
              /\ GrewFailed = Len(twin.failed_urls) - twin.base.failed_urls
              /\ pc = "loop" => Tail_n(results, GrewResults) = twin.result.recs

\* C17 witness: the first call went through a session fault and matched; the
\* second call, started on the recreated handle, returned the same records.
C17_Witness ==
    /\ SecondCall
    /\ pc = "loop"
    /\ ~result.none
    /\ result = twin.result
    /\ \E k \in 1..Len(twin.log) : twin.log[k].after # twin.log[k].handle
    /\ base.session # twin.base.session

====
